---- MODULE Spec2Model ----
(***************************************************************************)
(* Cat vs Dog classifier, labs/Laboratorio_6/Streamlit/app.py.             *)
(*                                                                         *)
(* Three state machines over one set of variables:                         *)
(*   SpecPreprocess  preprocess_image on concrete bitmaps                  *)
(*   SpecPredict     predict_image on concrete bitmaps and model outputs   *)
(*   Spec            the Streamlit script: one action per script run,      *)
(*                   load_model() at module level followed by main()       *)
(***************************************************************************)
EXTENDS Integers, Sequences, FiniteSets, TLC

VARIABLES
    \* ---- inference (predict_image, preprocess_image) ----
    image,                  \* the PIL image handed to predict_image
    processed_image,        \* the array handed to model.predict
    prediction,             \* prediction[0], what model.predict answered
    result,                 \* what predict_image returned
    \* ---- process and disk (load_model) ----
    model_file,             \* my_cat_dog_model.keras on disk
    cache,                  \* st.cache_resource entry of load_model
    http_gets,              \* requests.get calls made so far
    file_writes,            \* open(model_path, "wb") calls made so far
    last_load,              \* what the last script run's load_model did
    \* ---- one browser session ----
    session,                \* number of the current session
    image_to_predict,       \* st.session_state.image_to_predict
    last_uploaded_file_id,  \* st.session_state.last_uploaded_file_id
    uploaded_file,          \* value of the st.file_uploader widget
    rendered,               \* widgets the last script run put on the page
    held_ids,               \* file_ids the uploader held in a run of the session
    run                     \* record of the last script run; run.tick
                            \* changes with every run

infVars  == <<image, processed_image, prediction, result>>
diskVars == <<model_file, cache, http_gets, file_writes, last_load>>
uiVars   == <<session, image_to_predict, last_uploaded_file_id, uploaded_file,
              rendered, held_ids, run>>
vars     == <<infVars, diskVars, uiVars>>

\* Python's None (every optional value of the model is a record)
None == [none |-> TRUE]

\* an array that has not been computed
Unset == <<>>

(***************************************************************************)
(* Bounds                                                                  *)
(***************************************************************************)
MaxDim      == 2    \* input bitmaps are at most MaxDim x MaxDim
ProbSteps   == 4    \* model outputs are multiples of 1/ProbSteps
MaxUploads  == 3    \* files uploaded in one session
MaxSessions == 2    \* sessions (process starts and page reloads) followed
MaxGets     == 2    \* HTTP downloads followed

(***************************************************************************)
(* PIL images.  A bitmap is [mode, width, height, px], px[y][x] the tuple  *)
(* of 8-bit bands of the pixel in row y, column x.                         *)
(***************************************************************************)
Modes == {"RGB", "RGBA", "L", "P"}

Bands(mode) ==
    CASE mode = "RGB"  -> 3
      [] mode = "RGBA" -> 4
      [] mode = "L"    -> 1
      [] mode = "P"    -> 1

Patterns == {"black", "white", "checker", "ramp"}

\* the 8-bit sample of band b at (x, y) of a test pattern
Sample(pattern, x, y, b) ==
    CASE pattern = "black"   -> 0
      [] pattern = "white"   -> 255
      [] pattern = "checker" -> 255 * ((x + y) % 2)
      [] pattern = "ramp"    -> (x * 85 + y * 40 + b * 10) % 256

Bitmap(mode, w, h, pattern) ==
    [mode |-> mode, width |-> w, height |-> h,
     px |-> [y \in 1..h |-> [x \in 1..w |->
                [b \in 1..Bands(mode) |-> Sample(pattern, x, y, b)]]]]

Images ==
    {Bitmap(m, w, h, p) : m \in Modes, w \in 1..MaxDim, h \in 1..MaxDim,
                          p \in Patterns}

\* the palette of a mode P image: index -> (r, g, b)
Palette(i) == <<i, 255 - i, (2 * i) % 256>>

\* Image.convert('RGB')
convert_RGB(im) ==
    [im EXCEPT
        !.mode = "RGB",
        !.px = [y \in 1..im.height |-> [x \in 1..im.width |->
                  LET p == im.px[y][x] IN
                  CASE im.mode = "RGB"  -> p
                    [] im.mode = "RGBA" -> <<p[1], p[2], p[3]>>
                    [] im.mode = "L"    -> <<p[1], p[1], p[1]>>
                    [] im.mode = "P"    -> Palette(p[1])]]]

\* Image.resize((tw, th)): every target pixel is an 8-bit sample taken from
\* the source; the sample is taken at the pixel centre (nearest neighbour).
resize(im, tw, th) ==
    [im EXCEPT
        !.width = tw,
        !.height = th,
        !.px = [y \in 1..th |-> [x \in 1..tw |->
                  im.px[((2 * y - 1) * im.height) \div (2 * th) + 1]
                       [((2 * x - 1) * im.width) \div (2 * tw) + 1]]]]

\* np.array(image): shape (height, width, bands), dtype uint8
np_array(im) == im.px

\* a float32 quotient num / den, kept exact
Quot(num, den) == [num |-> num, den |-> den]

\* img_array.astype(np.float32) / 255.0
normalize(a) ==
    [y \in DOMAIN a |-> [x \in DOMAIN a[y] |-> [c \in DOMAIN a[y][x] |->
        Quot(a[y][x][c], 255)]]]

\* np.expand_dims(img_array, axis=0)
expand_dims(a) == <<a>>

TargetSize == 128

\* the default of the target_size parameter: (width, height)
target_size == <<TargetSize, TargetSize>>

\* (variant: the image is not converted to RGB)
preprocess_image_no_convert(_image) ==
    expand_dims(normalize(np_array(
        resize(_image, target_size[1], target_size[2]))))

preprocess_image(_image) ==
    LET rgb == IF _image.mode # "RGB" THEN convert_RGB(_image) ELSE _image
    IN  expand_dims(normalize(np_array(
            resize(rgb, target_size[1], target_size[2]))))

\* numpy .shape of a 4-d array
Shape(a) == <<Len(a), Len(a[1]), Len(a[1][1]), Len(a[1][1][1])>>

(***************************************************************************)
(* predict_image                                                           *)
(***************************************************************************)
class_names == <<"Gato", "Perro">>

\* what model.predict can return for one image: prediction[0]
Predictions ==
    {<<Quot(a, ProbSteps), Quot(b, ProbSteps)>> : a \in 0..ProbSteps,
                                                   b \in 0..ProbSteps}

Less(p, q) == p.num * q.den < q.num * p.den

\* (variant: the last index holding the maximum)
argmax_last(v) ==
    CHOOSE i \in 0..(Len(v) - 1) :
        /\ \A j \in 0..(Len(v) - 1) : ~Less(v[i + 1], v[j + 1])
        /\ \A j \in (i + 1)..(Len(v) - 1) : Less(v[j + 1], v[i + 1])

\* np.argmax: the first index holding the maximum (0-based as in numpy)
argmax(v) ==
    CHOOSE i \in 0..(Len(v) - 1) :
        /\ \A j \in 0..(Len(v) - 1) : ~Less(v[i + 1], v[j + 1])
        /\ \A j \in 0..(i - 1) : Less(v[j + 1], v[i + 1])

\* lines 70-75, what predict_image makes of prediction[0]
predict_image_result(prediction0) ==
    LET predicted_class == argmax(prediction0)
        confidence      == prediction0[predicted_class + 1]
    IN  [predicted_class |-> class_names[predicted_class + 1],
         confidence      |-> confidence,
         all_predictions |-> prediction0]

\* predict_image(model, image); out is what model.predict answers
predict_image(_image, out) ==
    [processed_image |-> preprocess_image(_image),
     prediction      |-> out,
     returned        |-> predict_image_result(out)]

(***************************************************************************)
(* load_model                                                              *)
(***************************************************************************)
\* my_cat_dog_model.keras: missing, the serialized network, or bytes that do
\* not deserialize (requests.get does not check the HTTP status)
FileStates == {"absent", "model", "garbage"}

\* what requests.get(model_url) can do
GetOutcomes == {"content", "error_page", "raise"}

\* the object tf.keras.models.load_model returns
keras_model == [keras |-> "my_cat_dog_model"]

os_path_exists(file) == file # "absent"

\* (variant: the existence test is left out)
must_download_always(file) == TRUE

\* line 24: download only when the file is missing
must_download(file) == ~os_path_exists(file)

\* the body of load_model, run on a cache miss
load_model_body(file, get) ==
    LET download == must_download(file)
        got      == download /\ get # "raise"
        after    == IF ~got THEN file
                    ELSE IF get = "content" THEN "model" ELSE "garbage"
        loaded   == (~download \/ got) /\ after = "model"
    IN  [file       |-> after,
         existed    |-> os_path_exists(file),
         gets       |-> IF download THEN 1 ELSE 0,
         writes     |-> IF got THEN 1 ELSE 0,
         raised     |-> ~loaded,
         model      |-> IF loaded THEN keras_model ELSE None]

\* @st.cache_resource: the body runs on a miss, and only a returned value is
\* stored
load_model(entry, file, get) ==
    IF entry # None
    THEN [file |-> file, existed |-> os_path_exists(file), gets |-> 0,
          writes |-> 0, raised |-> FALSE, model |-> entry, cache |-> entry,
          body |-> FALSE]
    ELSE LET b == load_model_body(file, get)
         IN  [file |-> b.file, existed |-> b.existed, gets |-> b.gets,
              writes |-> b.writes, raised |-> b.raised, model |-> b.model,
              cache |-> b.model, body |-> TRUE]

(***************************************************************************)
(* main                                                                    *)
(***************************************************************************)
\* a key that st.session_state does not hold
Absent == [absent |-> TRUE]

\* UploadedFile.file_id, a string unique to the upload
FileId(n) == [uuid |-> ToString(n)]

sample_images == [Gato |-> "cat.jpg", Perro |-> "dog1.png",
                  OtroPerro |-> "dog2.png"]
SampleButtons == {"Gato", "Perro", "OtroPerro"}

\* an uploaded file is an image, an image whose data is cut short (it opens
\* and fails when decoded), or no image at all
FileKinds == {"image", "truncated", "not_image"}

\* Image.open: the header is read now, the pixels when first used
Image_open_raises(f) == f.kind = "not_image"
Image_open_upload(f) ==
    [source |-> "upload", file_id |-> f.file_id, decodes |-> f.kind = "image"]
Image_open_path(path) ==
    [source |-> path, file_id |-> None, decodes |-> TRUE]

\* (variant: the keys are set in every run)
init_session_state_always(ss) ==
    [image_to_predict |-> None, last_uploaded_file_id |-> None]

\* lines 113-117
init_session_state(ss) ==
    [image_to_predict |->
        IF ss.image_to_predict = Absent THEN None ELSE ss.image_to_predict,
     last_uploaded_file_id |->
        IF ss.last_uploaded_file_id = Absent THEN None
        ELSE ss.last_uploaded_file_id]

\* (variant: the file_id is not compared)
is_new_upload_any(ss, uploaded) == uploaded # None

\* line 127: the uploaded file is taken when it is not the one last seen
is_new_upload(ss, uploaded) ==
    uploaded # None /\ uploaded.file_id # ss.last_uploaded_file_id

\* (variant: line 129 is left out)
take_upload_forgets(ss, uploaded) ==
    IF ~is_new_upload(ss, uploaded)
    THEN [ss |-> ss, opened |-> FALSE, raised |-> FALSE]
    ELSE IF Image_open_raises(uploaded)
    THEN [ss |-> ss, opened |-> TRUE, raised |-> TRUE]
    ELSE [ss |-> [image_to_predict |-> Image_open_upload(uploaded),
                  last_uploaded_file_id |-> ss.last_uploaded_file_id],
          opened |-> TRUE, raised |-> FALSE]

\* lines 126-129
take_upload(ss, uploaded) ==
    IF ~is_new_upload(ss, uploaded)
    THEN [ss |-> ss, opened |-> FALSE, raised |-> FALSE]
    ELSE IF Image_open_raises(uploaded)
    THEN [ss |-> ss, opened |-> TRUE, raised |-> TRUE]
    ELSE [ss |-> [image_to_predict |-> Image_open_upload(uploaded),
                  last_uploaded_file_id |-> uploaded.file_id],
          opened |-> TRUE, raised |-> FALSE]

\* (variant: the upload's file_id is not kept)
set_sample_image_resets(ss, path, uploaded) ==
    [image_to_predict |-> Image_open_path(path),
     last_uploaded_file_id |-> None]

\* lines 142-149
set_sample_image(ss, path, uploaded) ==
    [image_to_predict |-> Image_open_path(path),
     last_uploaded_file_id |->
        IF uploaded # None THEN uploaded.file_id ELSE None]

\* lines 151-165: at most one button is pressed in a run
press_samples(ss, pressed, uploaded) ==
    IF pressed \in SampleButtons
    THEN set_sample_image(ss, sample_images[pressed], uploaded)
    ELSE ss

\* (variant: the button is drawn whether or not there is an image)
offers_classify_always(image_shown) == TRUE

\* line 184: the classify button is on the page
offers_classify(image_shown) == image_shown # None

\* (variant: the results are drawn whenever the button is)
classify_pressed_or_not(image_shown, pressed) == image_shown # None

\* line 185: the button is drawn and was the one pressed
classify_pressed(image_shown, pressed) ==
    offers_classify(image_shown) /\ pressed = "classify"

\* lines 186-229: the results block
render_results(image_shown, out) ==
    [predict_calls |-> <<image_shown>>, shown |-> predict_image_result(out)]

NoResults == [predict_calls |-> <<>>, shown |-> None]

\* main(), from a model and the session's state to the page and the state
main(model, ss0, uploaded, pressed, out) ==
    IF model = None
    THEN [ss |-> ss0, rendered |-> {}, outcome |-> "model_error_reported",
          opened |-> FALSE, res |-> NoResults]
    ELSE
    LET ss1 == init_session_state(ss0)
        up  == take_upload(ss1, uploaded)
        ss2 == press_samples(up.ss, pressed, uploaded)
        img == ss2.image_to_predict
    IN  IF up.raised
        THEN [ss |-> up.ss, rendered |-> {"uploader"},
              outcome |-> "open_raised", opened |-> TRUE, res |-> NoResults]
        ELSE IF img # None /\ ~img.decodes
        THEN [ss |-> ss2, rendered |-> {"uploader", "samples"},
              outcome |-> "decode_raised", opened |-> up.opened,
              res |-> NoResults]
        ELSE [ss |-> ss2,
              rendered |-> {"uploader", "samples"} \cup
                    (IF offers_classify(img) THEN {"classify"} ELSE {}),
              outcome |-> "done", opened |-> up.opened,
              res |-> IF classify_pressed(img, pressed)
                      THEN render_results(img, out) ELSE NoResults]

(***************************************************************************)
(* preprocess_image and predict_image applied to bitmaps                   *)
(***************************************************************************)
NoLoad == [file |-> "absent", existed |-> FALSE, gets |-> 0, writes |-> 0,
           raised |-> FALSE, model |-> None, cache |-> None, body |-> FALSE]

NoRun == [tick |-> FALSE, trigger |-> "none", outcome |-> "none",
          opened |-> FALSE,
          held |-> None, predict_calls |-> <<>>, shown |-> None]

SessionStart ==
    /\ image_to_predict = Absent
    /\ last_uploaded_file_id = Absent
    /\ uploaded_file = None
    /\ rendered = {}
    /\ held_ids = {}
    /\ run = NoRun

\* the same, as the outcome of a step
StartSession ==
    /\ image_to_predict' = Absent
    /\ last_uploaded_file_id' = Absent
    /\ uploaded_file' = None
    /\ rendered' = {}
    /\ held_ids' = {}
    /\ run' = NoRun

\* the other machine's variables, at rest
ScriptAtRest ==
    /\ model_file = "model" /\ cache = keras_model
    /\ http_gets = 0 /\ file_writes = 0 /\ last_load = NoLoad
    /\ session = 1
    /\ SessionStart

\* line 180: main() preprocesses the image it displays
InitPreprocess ==
    /\ image \in Images
    /\ processed_image = Unset
    /\ prediction = Unset
    /\ result = None
    /\ ScriptAtRest

Preprocess ==
    /\ processed_image = Unset
    /\ processed_image' = preprocess_image(image)
    /\ UNCHANGED <<image, prediction, result, diskVars, uiVars>>

NextPreprocess == Preprocess

SpecPreprocess == InitPreprocess /\ [][NextPreprocess]_vars

\* line 188: predict_image on a bitmap of each mode
PredictInputs == {Bitmap(m, MaxDim, 1, "ramp") : m \in Modes}

InitPredict ==
    /\ image \in PredictInputs
    /\ processed_image = Unset
    /\ prediction = Unset
    /\ result = None
    /\ ScriptAtRest

PredictImage ==
    /\ result = None
    /\ \E out \in Predictions :
        LET r == predict_image(image, out)
        IN  /\ processed_image' = r.processed_image
            /\ prediction' = r.prediction
            /\ result' = r.returned
    /\ UNCHANGED <<image, diskVars, uiVars>>

NextPredict == PredictImage

SpecPredict == InitPredict /\ [][NextPredict]_vars

(***************************************************************************)
(* The Streamlit script: every interaction runs it from the top            *)
(***************************************************************************)
Init ==
    /\ image = None /\ processed_image = Unset /\ prediction = Unset
    /\ result = None
    /\ model_file \in {"absent", "model"}
    /\ cache = None
    /\ http_gets = 0 /\ file_writes = 0 /\ last_load = NoLoad
    /\ session = 1
    /\ SessionStart

\* what requests.get can do in the coming run, when the run calls it
Downloads ==
    IF cache = None /\ must_download(model_file) THEN GetOutcomes
    ELSE {"content"}

\* the model's outputs add up to 1 (softmax)
Softmax == {p \in Predictions : p[1].num + p[2].num = ProbSteps}

\* what model.predict can answer in the coming run, when the run calls it
Answers(trigger) ==
    IF trigger = "classify" THEN Softmax
    ELSE {<<Quot(ProbSteps, ProbSteps), Quot(0, ProbSteps)>>}

\* one run of app.py: load_model() at line 33, then main() at line 233.
\* A widget that the run does not reach loses its value.
script(entry, file, ss0, uploaded, trigger, get, out) ==
    LET l == load_model(entry, file, get)
    IN  IF l.raised
        THEN [load |-> l, ss |-> ss0, uploaded |-> None, rendered |-> {},
              held |-> None, outcome |-> "load_raised", opened |-> FALSE,
              res |-> NoResults]
        ELSE LET model == load_model(l.cache, l.file, get).model
                 m     == main(model, ss0, uploaded, trigger, out)
             IN  [load |-> l, ss |-> m.ss,
                  uploaded |-> IF "uploader" \in m.rendered THEN uploaded
                               ELSE None,
                  rendered |-> m.rendered,
                  held |-> IF "uploader" \in m.rendered THEN uploaded
                           ELSE None,
                  outcome |-> m.outcome, opened |-> m.opened,
                  res |-> m.res]

ScriptRun(trigger, uploaded) ==
    /\ \E get \in Downloads, out \in Answers(trigger) :
        \E r \in {script(cache, model_file,
                         [image_to_predict |-> image_to_predict,
                          last_uploaded_file_id |-> last_uploaded_file_id],
                         uploaded, trigger, get, out)} :
            /\ http_gets + r.load.gets <= MaxGets
            /\ model_file' = r.load.file
            /\ cache' = r.load.cache
            /\ http_gets' = http_gets + r.load.gets
            /\ file_writes' = file_writes + r.load.writes
            /\ last_load' = r.load
            /\ session' = session
            /\ image_to_predict' = r.ss.image_to_predict
            /\ last_uploaded_file_id' = r.ss.last_uploaded_file_id
            /\ uploaded_file' = r.uploaded
            /\ rendered' = r.rendered
            /\ held_ids' = held_ids \cup
                    (IF r.held = None THEN {} ELSE {r.held.file_id})
            /\ run' = [tick |-> ~run.tick,
                       trigger |-> trigger,
                       outcome |-> r.outcome,
                       opened |-> r.opened,
                       held |-> r.held,
                       predict_calls |-> r.res.predict_calls,
                       shown |-> r.res.shown]
    /\ UNCHANGED infVars

\* the page is loaded, or rerun from the menu
Rerun == ScriptRun("rerun", uploaded_file)

\* the user puts a file in the uploader
Upload ==
    /\ "uploader" \in rendered
    /\ Cardinality(held_ids) < MaxUploads
    /\ \E kind \in FileKinds :
        ScriptRun("upload", [file_id |-> FileId(Cardinality(held_ids) + 1),
                             kind |-> kind])

\* the user removes the file from the uploader
RemoveUpload ==
    /\ "uploader" \in rendered
    /\ uploaded_file # None
    /\ ScriptRun("remove", None)

PressSample ==
    /\ "samples" \in rendered
    /\ \E b \in SampleButtons : ScriptRun(b, uploaded_file)

PressClassify ==
    /\ "classify" \in rendered
    /\ ScriptRun("classify", uploaded_file)

\* the page is reloaded: a new session of the same process
NewSession ==
    /\ session < MaxSessions
    /\ session' = session + 1
    /\ StartSession
    /\ UNCHANGED <<infVars, model_file, cache, http_gets, file_writes,
                   last_load>>

\* the process is started again: the cache and the session are gone, the
\* file stays
Restart ==
    /\ session < MaxSessions
    /\ session' = session + 1
    /\ cache' = None
    /\ StartSession
    /\ UNCHANGED <<infVars, model_file, http_gets, file_writes, last_load>>

\* "Clear cache" in the Streamlit menu
ClearCache ==
    /\ cache # None
    /\ cache' = None
    /\ UNCHANGED <<infVars, model_file, http_gets, file_writes, last_load,
                   uiVars>>

Next ==
    \/ Rerun
    \/ Upload
    \/ RemoveUpload
    \/ PressSample
    \/ PressClassify
    \/ NewSession
    \/ Restart
    \/ ClearCache

Spec == Init /\ [][Next]_vars

(***************************************************************************)
(* Properties                                                              *)
(***************************************************************************)
IsImage(v) == v # None /\ v # Absent
IsSample(v) == IsImage(v) /\ v.source # "upload"
flags == <<image_to_predict, last_uploaded_file_id>>

\* the step is a run of the script in the current session
Ran == run'.tick # run.tick /\ session' = session

\* C1, as stated: a download happens only when the file is missing, and over
\* all calls of load_model, restarts included, at most one download happens.
C1_DownloadedAtMostOnce ==
    /\ last_load.gets > 0 => ~last_load.existed
    /\ http_gets <= 1

\* C1, amended: a download is started only when the file is missing, at most
\* one download is ever written to the file, and once the file exists no
\* step downloads or writes to it.  (A download that raises leaves the file
\* missing, and the next call downloads again.)
C1_DownloadOnlyWhenMissing ==
    /\ [](file_writes <= 1)
    /\ []((last_load.gets > 0 \/ last_load.writes > 0) => ~last_load.existed)
    /\ [][/\ http_gets' # http_gets => ~os_path_exists(model_file)
          /\ os_path_exists(model_file) =>
                /\ model_file' = model_file
                /\ http_gets' = http_gets
                /\ file_writes' = file_writes]_vars

\* a later process found the downloaded file and loaded it without a download
C1_Witness ==
    /\ session > 1
    /\ last_load.body /\ last_load.existed /\ ~last_load.raised
    /\ http_gets = 1 /\ file_writes = 1

\* C2, as stated: when loading the model fails, load_model yields None and
\* main() reports the error and returns before drawing any widget.
C2_LoadFailureReported ==
    last_load.raised =>
        /\ run.outcome = "model_error_reported"
        /\ rendered = {}

\* C3: with the default target size the array is of shape (1, 128, 128, 3)
\* and every element is an 8-bit value over 255, so within [0, 1].
C3_PreprocessedShape ==
    processed_image # Unset =>
        /\ Shape(processed_image) = <<1, TargetSize, TargetSize, 3>>
        /\ \A y \in 1..TargetSize :
            /\ Len(processed_image[1][y]) = TargetSize
            /\ \A x \in 1..TargetSize :
                /\ Len(processed_image[1][y][x]) = 3
                /\ \A c \in 1..3 :
                    LET e == processed_image[1][y][x][c]
                    IN  /\ e.den = 255
                        /\ e.num \in 0..255
                        /\ 0 <= e.num /\ e.num <= e.den

\* a non-square image that is not RGB was preprocessed, and holds a 1.0
C3_Witness ==
    /\ processed_image # Unset
    /\ image.mode # "RGB"
    /\ image.width # image.height
    /\ \E y \in 1..TargetSize, x \in 1..TargetSize :
            processed_image[1][y][x][1] = Quot(255, 255)

\* C4: the label is the one at the argmax index (0 or 1) of [cat, dog], the
\* confidence is the larger probability, the pair is returned as the model
\* gave it, and a tie is labelled cat.
C4_ArgmaxLabel ==
    result # None =>
        /\ result.all_predictions = prediction
        /\ \E i \in {0, 1} :
            /\ result.predicted_class = class_names[i + 1]
            /\ result.confidence = prediction[i + 1]
            /\ \A j \in {0, 1} : ~Less(prediction[i + 1], prediction[j + 1])
        /\ \A j \in {0, 1} : ~Less(result.confidence, prediction[j + 1])
        /\ result.confidence \in {prediction[1], prediction[2]}
        /\ prediction[1] = prediction[2] =>
                result.predicted_class = class_names[1]

\* a tie of two positive probabilities was labelled
C4_Witness ==
    /\ result # None
    /\ prediction[1] = prediction[2]
    /\ prediction[1].num > 0
    /\ processed_image # Unset

\* C5: a run calls predict_image at most once, only when the classify button
\* triggered it, with the image session_state holds after the upload and
\* sample handling, never with None; the button is drawn only with an image.
C5_PredictOnlyOnClassify ==
    /\ Len(run.predict_calls) <= 1
    /\ Len(run.predict_calls) = 1 =>
        /\ run.trigger = "classify"
        /\ IsImage(run.predict_calls[1])
        /\ run.predict_calls[1] = image_to_predict
    /\ "classify" \in rendered => IsImage(image_to_predict)

\* a sample was classified while the uploader held a file
C5_Witness ==
    /\ Len(run.predict_calls) = 1
    /\ run.held # None
    /\ IsSample(image_to_predict)

\* C6: a classify run leaves both session flags as they were, and a run that
\* the classify button did not trigger draws no prediction.
C6_NothingKeptOfPrediction ==
    [][Ran =>
        /\ run'.trigger = "classify" => flags' = flags
        /\ run'.trigger # "classify" => run'.shown = None]_vars

\* an upload was classified as a dog
C6_Witness ==
    /\ run.trigger = "classify"
    /\ run.shown # None
    /\ run.shown.predicted_class = class_names[2]
    /\ image_to_predict.source = "upload"

\* C7, as stated: with a file in the uploader and no sample button pressed, a
\* file_id other than the last seen makes the upload the image and its
\* file_id the last seen; the same file_id leaves the file unopened and both
\* flags as they were.
C7_UploadTaken ==
    [][(Ran /\ run'.held # None /\ run'.trigger \notin SampleButtons) =>
        IF run'.held.file_id # last_uploaded_file_id
        THEN /\ image_to_predict' = Image_open_upload(run'.held)
             /\ last_uploaded_file_id' = run'.held.file_id
        ELSE /\ ~run'.opened
             /\ flags' = flags]_vars

\* C7, amended: the upload is taken as stated when Image.open accepts it;
\* when Image.open raises, the run ends there and both flags stay as they
\* were.
C7_UploadTakenIfOpened ==
    [][(Ran /\ run'.held # None /\ run'.trigger \notin SampleButtons) =>
        IF run'.held.file_id # last_uploaded_file_id
        THEN IF Image_open_raises(run'.held)
             THEN /\ run'.outcome = "open_raised"
                  /\ flags' = flags
             ELSE /\ run'.opened
                  /\ image_to_predict' = Image_open_upload(run'.held)
                  /\ last_uploaded_file_id' = run'.held.file_id
        ELSE /\ ~run'.opened
             /\ flags' = flags]_vars

\* a second upload was taken in place of the first
C7_Witness ==
    /\ run.trigger = "upload"
    /\ run.opened
    /\ image_to_predict = Image_open_upload(run.held)
    /\ run.held.file_id # FileId(1)

\* C8: while a sample is the image and the uploader holds a file, the image
\* changes only in a run that a sample button or a new upload triggered.
C8_SampleKept ==
    [][(/\ Ran
        /\ IsSample(image_to_predict)
        /\ uploaded_file # None
        /\ image_to_predict' # image_to_predict) =>
            \/ run'.trigger \in SampleButtons
            \/ /\ run'.trigger = "upload"
               /\ run'.held # uploaded_file]_vars

\* the sample chosen over a held upload was classified
C8_Witness ==
    /\ IsSample(image_to_predict)
    /\ uploaded_file # None
    /\ run.trigger = "classify"
    /\ run.predict_calls = <<image_to_predict>>

\* C9, as stated: after a run in which the uploader held a file, the last
\* seen file_id is that file's; and it is never anything but None (or not yet
\* set) or the file_id of a file the uploader held.
C9_LastIdIsHeld ==
    /\ run.held # None => last_uploaded_file_id = run.held.file_id
    /\ last_uploaded_file_id \in {Absent, None} \cup held_ids

\* C9, amended: the same after every run that got past Image.open; a run in
\* which Image.open raised ends with the last seen file_id as it was, which
\* is not the held file's.
C9_LastIdIsHeldIfOpened ==
    /\ (run.held # None /\ run.outcome # "open_raised") =>
            last_uploaded_file_id = run.held.file_id
    /\ run.outcome = "open_raised" =>
            /\ run.held # None
            /\ last_uploaded_file_id # run.held.file_id
    /\ last_uploaded_file_id \in {Absent, None} \cup held_ids

\* a sample was chosen while the second upload was held
C9_Witness ==
    /\ run.trigger \in SampleButtons
    /\ run.held # None
    /\ run.held.file_id = FileId(2)
    /\ last_uploaded_file_id = FileId(2)

\* C10: within a session an image, once set, is never replaced by None, and
\* removing the file from the uploader changes neither flag.
C10_ImageStays ==
    [][/\ (session' = session /\ IsImage(image_to_predict)) =>
                IsImage(image_to_predict')
       /\ (Ran /\ run'.trigger = "remove") => flags' = flags]_vars

\* the upload was removed and is still shown and offered for classification
C10_Witness ==
    /\ run.trigger = "remove"
    /\ uploaded_file = None
    /\ IsImage(image_to_predict)
    /\ image_to_predict.source = "upload"
    /\ "classify" \in rendered

====
